---- MODULE Spec2Model ----
(***************************************************************************)
(* Nexus membership key system: key encoding (generate_membership_key),    *)
(* key decoding (validate_membership_key) and the QR metadata adapter      *)
(* (generate_premium_qr_code).                                             *)
(*                                                                         *)
(* A Python str is a sequence of Unicode code points (ord values), so that *)
(* ord(), upper(), lower(), hex formatting, hex parsing, slicing, split()  *)
(* and startswith() are computed as Python computes them.                  *)
(***************************************************************************)
EXTENDS Integers, Sequences, FiniteSets, TLC

VARIABLES
    rng,        \* state of the process-wide generator of module random
    args,       \* arguments of the generate_membership_key call of this run
    key,        \* the key string under test
    src,        \* where key comes from: "none", "generated", "tampered", "crafted"
    orig,       \* the generated key a tampered key was made from
    tamperPos,  \* 1-based index in orig of the replaced character (0: none)
    cksum,      \* last call of calculate_checksum: its input and its output
    result,     \* last outcome of validate_membership_key
    qr,         \* last outcome of generate_premium_qr_code
    op,         \* the last operation performed
    pc,         \* concurrent calls: position of each thread in generate_unique_pattern
    idx,        \* concurrent calls: loop variable i of each thread
    pattern,    \* concurrent calls: local variable pattern of each thread
    callArgs,   \* concurrent calls: arguments of each thread's call
    ret,        \* concurrent calls: key returned by each thread
    running,    \* concurrent calls: the thread that holds the interpreter lock
    switches    \* concurrent calls: number of thread switches so far

vars == <<rng, args, key, src, orig, tamperPos, cksum, result, qr, op,
          pc, idx, pattern, callArgs, ret, running, switches>>

seqVars == <<args, key, src, orig, tamperPos, cksum, result, qr, op>>
concVars == <<pc, idx, pattern, callArgs, ret, running, switches>>

(***************************************************************************)
(* Bounds of the model.                                                    *)
(***************************************************************************)
MaxSeed == 9          \* seeds of the generator are 0..MaxSeed
MaxSwitches == 2      \* thread switches explored in the concurrent runs

(***************************************************************************)
(* Characters and string primitives.                                       *)
(***************************************************************************)
ascii_uppercase == <<65, 66, 67, 68, 69, 70, 71, 72, 73, 74, 75, 76, 77,
                     78, 79, 80, 81, 82, 83, 84, 85, 86, 87, 88, 89, 90>>
digits == <<48, 49, 50, 51, 52, 53, 54, 55, 56, 57>>

\* "!@#$%^&*~=-_+[]{}|;:,./<>?"
SPECIAL_CHARS == <<33, 64, 35, 36, 37, 94, 38, 42, 126, 61, 45, 95, 43, 91,
                   93, 123, 125, 124, 59, 58, 44, 46, 47, 60, 62, 63>>

Range(s) == {s[i] : i \in 1..Len(s)}

\* str.upper() / str.lower() of one character (ASCII letters; the other
\* characters used here, among them the separators, have no case)
UpperChar(c) == IF c >= 97 /\ c <= 122 THEN c - 32 ELSE c
LowerChar(c) == IF c >= 65 /\ c <= 90 THEN c + 32 ELSE c
Upper(s) == [i \in 1..Len(s) |-> UpperChar(s[i])]
Lower(s) == [i \in 1..Len(s) |-> LowerChar(s[i])]

\* s[a:b] with 0 <= a, as Python slices: out-of-range ends are clipped
Slice(s, a, b) ==
    LET hi == IF b > Len(s) THEN Len(s) ELSE b
    IN  IF a >= hi THEN <<>> ELSE SubSeq(s, a + 1, hi)

\* s[:-n] and s[-n:]
DropLast(s, n) == IF Len(s) <= n THEN <<>> ELSE SubSeq(s, 1, Len(s) - n)
TakeLast(s, n) == IF Len(s) <= n THEN s ELSE SubSeq(s, Len(s) - n + 1, Len(s))

StartsWith(s, p) == Len(s) >= Len(p) /\ SubSeq(s, 1, Len(p)) = p

\* s.split(sep) for a one-character separator
RECURSIVE SplitFrom(_, _, _, _)
SplitFrom(s, sep, i, cur) ==
    IF i > Len(s) THEN <<cur>>
    ELSE IF s[i] = sep THEN <<cur>> \o SplitFrom(s, sep, i + 1, <<>>)
    ELSE SplitFrom(s, sep, i + 1, Append(cur, s[i]))
Split(s, sep) == SplitFrom(s, sep, 1, <<>>)

\* s.split(): the maximal runs of non-whitespace characters
IsSpace(c) == c \in {32, 9, 10, 13}
RECURSIVE WordsFrom(_, _, _)
WordsFrom(s, i, cur) ==
    IF i > Len(s) THEN (IF cur = <<>> THEN <<>> ELSE <<cur>>)
    ELSE IF IsSpace(s[i])
         THEN (IF cur = <<>> THEN <<>> ELSE <<cur>>) \o WordsFrom(s, i + 1, <<>>)
         ELSE WordsFrom(s, i + 1, Append(cur, s[i]))
Words(s) == WordsFrom(s, 1, <<>>)

\* format(n, "X"): uppercase hexadecimal digits of n >= 0, no padding
HexDigit(d) == IF d < 10 THEN 48 + d ELSE 55 + d
RECURSIVE FormatX(_)
FormatX(n) == IF n < 16 THEN <<HexDigit(n)>>
              ELSE Append(FormatX(n \div 16), HexDigit(n % 16))
\* format(n, "02X"): the same, zero-padded to a minimum width of 2
Format02X(n) == IF n < 16 THEN <<48>> \o FormatX(n) ELSE FormatX(n)

\* int(s, 16): an optional sign, then one or more hex digits of either case
\* (the model's strings hold no whitespace, underscore or "0x" prefix)
IsHexChar(c) == (c >= 48 /\ c <= 57) \/ (c >= 65 /\ c <= 70) \/ (c >= 97 /\ c <= 102)
HexValue(c) == IF c <= 57 THEN c - 48 ELSE IF c <= 70 THEN c - 55 ELSE c - 87
RECURSIVE HexNumber(_)
HexNumber(s) == IF s = <<>> THEN 0
                ELSE 16 * HexNumber(SubSeq(s, 1, Len(s) - 1)) + HexValue(s[Len(s)])
IntBase16Ok(s) ==
    LET body == IF s # <<>> /\ s[1] \in {43, 45} THEN Tail(s) ELSE s
    IN  body # <<>> /\ \A i \in 1..Len(body) : IsHexChar(body[i])
IntBase16(s) ==
    IF s[1] = 45 THEN 0 - HexNumber(Tail(s))
    ELSE IF s[1] = 43 THEN HexNumber(Tail(s))
    ELSE HexNumber(s)

\* datetime(year, month, day) accepts exactly the dates of the calendar
IsLeap(y) == (y % 4 = 0 /\ y % 100 # 0) \/ y % 400 = 0
DaysInMonth(y, m) ==
    IF m = 2 THEN (IF IsLeap(y) THEN 29 ELSE 28)
    ELSE IF m \in {4, 6, 9, 11} THEN 30 ELSE 31
ValidDate(y, m, d) ==
    /\ y >= 1 /\ y <= 9999
    /\ m >= 1 /\ m <= 12
    /\ d >= 1 /\ d <= DaysInMonth(y, m)

(***************************************************************************)
(* The tier table, in the iteration order of the dict.                     *)
(***************************************************************************)
USER_TIERS == <<
    [key |-> <<65, 82, 67, 72, 73, 86, 73, 83, 84>>,                \* "ARCHIVIST"
     id |-> 1, separator |-> 45, prefix |-> <<65, 82, 75>>],        \* "-", "ARK"
    [key |-> <<79, 82, 67, 72, 69, 83, 84, 82, 65, 84, 79, 82>>,    \* "ORCHESTRATOR"
     id |-> 2, separator |-> 58, prefix |-> <<79, 82, 67>>],        \* ":", "ORC"
    [key |-> <<71, 79, 68, 70, 65, 84, 72, 69, 82>>,                \* "GODFATHER"
     id |-> 3, separator |-> 8734, prefix |-> <<71, 79, 68>>],      \* U+221E, "GOD"
    [key |-> <<69, 78, 84, 73, 84, 89>>,                            \* "ENTITY"
     id |-> 4, separator |-> 10209, prefix |-> <<78, 88, 83>>] >>   \* U+27E1, "NXS"

TierKeys == {USER_TIERS[i].key : i \in 1..Len(USER_TIERS)}
\* USER_TIERS[k] for a key k of the dict
TierOf(k) == USER_TIERS[CHOOSE i \in 1..Len(USER_TIERS) : USER_TIERS[i].key = k]

(***************************************************************************)
(* Module random: one generator shared by the whole process. Its state is  *)
(* abstracted to a number; seed() sets it from the seed alone, choice()    *)
(* reads it and advances it. The seed string user_id +                     *)
(* str(registration_date.timestamp()) is abstracted to a seed number.      *)
(***************************************************************************)
Seeds == 0..MaxSeed
\* random.seed(seed): the state the seed determines
SeedState(seed) == (seed * 61 + 270) % 936
\* random.choice(seq): the element chosen in state s, and the state after it
RandomChoice(seq, s) == seq[(s % Len(seq)) + 1]
NextRandom(s) == (s * 157 + 95) % 936

(***************************************************************************)
(* Key encoding.                                                           *)
(***************************************************************************)
\* the user ids of the model, with hashlib.sha256(id).hexdigest()[:6].upper()
UserAlice == <<97, 108, 105, 99, 101, 49, 50, 51>>     \* "alice123"
UserBob == <<98, 111, 98>>                             \* "bob"
UserIds == {UserAlice, UserBob}
create_user_hash(user_id) ==
    IF user_id = UserAlice THEN <<52, 69, 52, 48, 69, 56>>      \* "4E40E8"
    ELSE <<56, 49, 66, 54, 51, 55>>                             \* "81B637"

encode_tier(tier_id) == ascii_uppercase[tier_id]

\* as encode_timestamp, the month zero-padded to 2 digits like the year and day
encode_timestamp_month02X(date) ==
    Format02X(date.year % 100) \o Format02X(date.month) \o Format02X(date.day)

encode_timestamp(date) ==
    Format02X(date.year % 100) \o FormatX(date.month) \o Format02X(date.day)

\* the character generate_unique_pattern draws at loop index i in state s
PatternChar(i, s) ==
    IF i % 4 = 3 THEN RandomChoice(SPECIAL_CHARS, s)
    ELSE RandomChoice(ascii_uppercase \o digits, s)

\* the loop of generate_unique_pattern from index i on: <<pattern, state after>>
RECURSIVE PatternLoop(_, _, _)
PatternLoop(i, pat, s) ==
    IF i = 12 THEN <<pat, s>>
    ELSE PatternLoop(i + 1, Append(pat, PatternChar(i, s)), NextRandom(s))

\* run without interruption: <<pattern, state of the generator after>>
generate_unique_pattern(seed) == PatternLoop(0, <<>>, SeedState(seed))

generate_personal_element(user_attributes, user_id) ==
    IF user_attributes.given /\ user_attributes.hasName
    THEN LET parts == Words(user_attributes.name)
             first2 == Slice(parts, 0, 2)
         IN  [i \in 1..Len(first2) |-> UpperChar(first2[i][1])]
    ELSE Slice(create_user_hash(user_id), 0, 2)

\* sum(ord(c) for c in s)
RECURSIVE OrdSum(_)
OrdSum(s) == IF s = <<>> THEN 0 ELSE s[1] + OrdSum(Tail(s))

RECURSIVE WeightedSum(_, _)
WeightedSum(s, n) == IF n = 0 THEN 0 ELSE WeightedSum(s, n - 1) + s[n] * n

\* as calculate_checksum, the weights counted from 0: ord(c) * i
calculate_checksum_weight_from_0(input_str) ==
    LET s == WeightedSum(input_str, Len(input_str)) - OrdSum(input_str)
    IN  FormatX(s % 36) \o FormatX((s * 13) % 36)

calculate_checksum(input_str) ==
    LET s == WeightedSum(input_str, Len(input_str))
    IN  FormatX(s % 36) \o FormatX((s * 13) % 36)

format_key(segmentA, segmentB, segmentC, segmentD, personalElement, checksum, tier) ==
    segmentA \o <<tier.separator>> \o segmentB \o <<tier.separator>> \o segmentC
        \o <<tier.separator>> \o segmentD \o personalElement
        \o <<tier.separator>> \o checksum

\* the checksum input of generate_membership_key, given the unique pattern
BaseKey(user_id, tier, registration_date, user_attributes, unique_pattern) ==
    LET user_hash == create_user_hash(user_id)
        segmentA == tier.prefix \o Slice(user_hash, 0, 3)
        segmentB == <<encode_tier(tier.id)>> \o Slice(unique_pattern, 0, 4)
        segmentC == encode_timestamp(registration_date)
        segmentD == Slice(unique_pattern, 4, 8)
    IN  segmentA \o segmentB \o segmentC \o segmentD
            \o generate_personal_element(user_attributes, user_id)

\* generate_membership_key after the unique pattern is drawn
AssembleKey(user_id, tier, registration_date, user_attributes, unique_pattern) ==
    LET user_hash == create_user_hash(user_id)
        segmentA == tier.prefix \o Slice(user_hash, 0, 3)
        segmentB == <<encode_tier(tier.id)>> \o Slice(unique_pattern, 0, 4)
        segmentC == encode_timestamp(registration_date)
        segmentD == Slice(unique_pattern, 4, 8)
        personal_element == generate_personal_element(user_attributes, user_id)
        base_key == segmentA \o segmentB \o segmentC \o segmentD \o personal_element
    IN  format_key(segmentA, segmentB, segmentC, segmentD, personal_element,
                   calculate_checksum(base_key), tier)

\* USER_TIERS[tier_name.upper()] raises KeyError for a name not in the table
KnownTier(tier_name) == Upper(tier_name) \in TierKeys

generate_membership_key(user_id, tier_name, registration_date, user_attributes, seed) ==
    AssembleKey(user_id, TierOf(Upper(tier_name)), registration_date,
                user_attributes, generate_unique_pattern(seed)[1])

(***************************************************************************)
(* Key decoding. An outcome is a record: outcome is "returned" (the dict   *)
(* validate_membership_key returns) or "raised" (an exception leaves the   *)
(* function); the fields a dict lacks hold the defaults below.             *)
(***************************************************************************)
NoDate == [present |-> FALSE, year |-> 0, month |-> 0, day |-> 0]

NoResult == [outcome |-> "none", valid |-> FALSE, error |-> "", exception |-> "",
             user_id |-> <<>>, tier_name |-> <<>>, tier_level |-> 0,
             registration_date |-> NoDate, personal_element |-> <<>>]

Failure(message) == [NoResult EXCEPT !.outcome = "returned", !.error = message]
Raised(exc) == [NoResult EXCEPT !.outcome = "raised", !.exception = exc]

\* the tiers the for loop of validate_membership_key would break on
MatchingTiers(membership_key) ==
    {i \in 1..Len(USER_TIERS) :
        /\ StartsWith(membership_key, USER_TIERS[i].prefix)
        /\ USER_TIERS[i].separator \in Range(membership_key)}

Min(S) == CHOOSE x \in S : \A y \in S : x <= y

\* the try block: datetime(year, month, day), or None on any exception
DecodeDate(time_signature) ==
    LET ys == Slice(time_signature, 0, 2)
        ds == Slice(time_signature, 3, Len(time_signature))
    IN  IF /\ IntBase16Ok(ys)
           /\ Len(time_signature) >= 3
           /\ IntBase16Ok(<<time_signature[3]>>)
           /\ IntBase16Ok(ds)
        THEN LET year == IntBase16(ys) + 2000
                 month == IntBase16(<<time_signature[3]>>)
                 day == IntBase16(ds)
             IN  IF ValidDate(year, month, day)
                 THEN [present |-> TRUE, year |-> year, month |-> month, day |-> day]
                 ELSE NoDate
        ELSE NoDate

\* the input of the checksum that validate_membership_key recomputes
Reconstructed(segments) ==
    segments[1] \o segments[2] \o segments[3]
        \o DropLast(segments[4], 2) \o TakeLast(segments[4], 2)

validate_membership_key(membership_key) ==
    IF MatchingTiers(membership_key) = {} THEN Failure("Unknown key format")
    ELSE
    LET tier == USER_TIERS[Min(MatchingTiers(membership_key))]
        segments == Split(membership_key, tier.separator)
    IN  IF Len(segments) # 5 THEN Failure("Invalid key structure")
        ELSE
        LET segmentA == segments[1]
            segmentB == segments[2]
            segmentC == segments[3]
            personal_element == TakeLast(segments[4], 2)
            checksum == segments[5]
        IN  IF checksum # calculate_checksum(Reconstructed(segments))
            THEN Failure("Invalid checksum")
            ELSE IF segmentB = <<>> THEN Raised("IndexError")
            ELSE IF segmentB[1] \notin Range(ascii_uppercase) THEN Raised("ValueError")
            ELSE IF segmentB[1] - 65 + 1 # tier.id THEN Failure("Tier identifier mismatch")
            ELSE [outcome |-> "returned", valid |-> TRUE, error |-> "", exception |-> "",
                  user_id |-> <<117, 115, 101, 114, 95>> \o Slice(segmentA, 3, Len(segmentA)),
                  tier_name |-> tier.key,
                  tier_level |-> tier.id,
                  registration_date |-> DecodeDate(segmentC),
                  personal_element |-> personal_element]

\* whether validate_membership_key gets as far as calling calculate_checksum
ReachesChecksum(membership_key) ==
    /\ MatchingTiers(membership_key) # {}
    /\ Len(Split(membership_key,
                 USER_TIERS[Min(MatchingTiers(membership_key))].separator)) = 5

(***************************************************************************)
(* The QR metadata adapter.                                                *)
(***************************************************************************)
\* as _get_tier_color, the colour map keyed by the display names of the tiers
_get_tier_color_by_display_name(tier_name) ==
    IF tier_name = <<65, 114, 99, 104, 105, 118, 105, 115, 116>> THEN "#3A86FF"
    ELSE IF tier_name = <<79, 114, 99, 104, 101, 115, 116, 114, 97, 116, 111, 114>> THEN "#8338EC"
    ELSE IF tier_name = <<71, 111, 100, 102, 97, 116, 104, 101, 114>> THEN "#FF006E"
    ELSE IF tier_name = <<69, 110, 116, 105, 116, 121>> THEN "#FFBE0B"
    ELSE "#10b981"

_get_tier_color(tier_name) ==
    IF tier_name = <<65, 82, 67, 72, 73, 86, 73, 83, 84>> THEN "#3A86FF"
    ELSE IF tier_name = <<79, 82, 67, 72, 69, 83, 84, 82, 65, 84, 79, 82>> THEN "#8338EC"
    ELSE IF tier_name = <<71, 79, 68, 70, 65, 84, 72, 69, 82>> THEN "#FF006E"
    ELSE IF tier_name = <<69, 78, 84, 73, 84, 89>> THEN "#FFBE0B"
    ELSE "#10b981"

NoQr == [outcome |-> "none", success |-> FALSE, error |-> "", details |-> "",
         membershipKey |-> <<>>, validationURL |-> <<>>, tier |-> <<>>,
         style |-> <<>>, mainColor |-> "", patternComplexity |-> 0,
         visualTierLevel |-> 0, tierName |-> <<>>, tierLevel |-> 0]

\* "https://nexus.io/validate/"
ValidationBase == <<104, 116, 116, 112, 115, 58, 47, 47, 110, 101, 120, 117, 115,
                    46, 105, 111, 47, 118, 97, 108, 105, 100, 97, 116, 101, 47>>

generate_premium_qr_code(membership_key) ==
    LET validation == validate_membership_key(membership_key)
    IN  IF validation.outcome = "raised" THEN [NoQr EXCEPT !.outcome = "raised"]
        ELSE IF ~validation.valid
        THEN [NoQr EXCEPT !.outcome = "returned", !.error = "Invalid membership key",
                          !.details = validation.error]
        ELSE [outcome |-> "returned", success |-> TRUE, error |-> "", details |-> "",
              membershipKey |-> membership_key,
              validationURL |-> ValidationBase \o membership_key,
              tier |-> validation.tier_name,
              style |-> Lower(validation.tier_name),
              mainColor |-> _get_tier_color(validation.tier_name),
              patternComplexity |-> IF validation.tier_level * 2 < 10
                                    THEN validation.tier_level * 2 ELSE 10,
              visualTierLevel |-> validation.tier_level,
              tierName |-> validation.tier_name,
              tierLevel |-> validation.tier_level]

(***************************************************************************)
(* Inputs of the runs.                                                     *)
(***************************************************************************)
TierNames == { <<65, 114, 99, 104, 105, 118, 105, 115, 116>>,              \* "Archivist"
               <<79, 82, 67, 72, 69, 83, 84, 82, 65, 84, 79, 82>>,         \* "ORCHESTRATOR"
               <<103, 111, 100, 102, 97, 116, 104, 101, 114>>,             \* "godfather"
               <<69, 110, 84, 105, 84, 121>>,                              \* "EnTiTy"
               <<82, 79, 79, 75, 73, 69>> }                                \* "ROOKIE"

Dates == { [year |-> 2024, month |-> 3, day |-> 15],
           [year |-> 1999, month |-> 12, day |-> 31],
           [year |-> 2000, month |-> 2, day |-> 29],
           [year |-> 2099, month |-> 10, day |-> 9] }

NoAttributes == [given |-> FALSE, hasName |-> FALSE, name |-> <<>>]        \* None
EmptyAttributes == [given |-> TRUE, hasName |-> FALSE, name |-> <<>>]      \* {}
Named(n) == [given |-> TRUE, hasName |-> TRUE, name |-> n]                 \* {"name": n}
Attributes ==
    { NoAttributes, EmptyAttributes,
      Named(<<65, 108, 105, 99, 101, 32, 83, 109, 105, 116, 104>>),        \* "Alice Smith"
      Named(<<97, 108, 105, 99, 101>>),                                    \* "alice"
      Named(<<109, 97, 114, 121, 32, 97, 110, 110, 32, 108, 101, 101>>) }  \* "mary ann lee"

ArgSet == [user_id : UserIds, tier_name : TierNames, registration_date : Dates,
           user_attributes : Attributes, seed : Seeds]

NoArgs == [user_id |-> UserAlice,
           tier_name |-> <<65, 114, 99, 104, 105, 118, 105, 115, 116>>,
           registration_date |-> [year |-> 2024, month |-> 3, day |-> 15],
           user_attributes |-> NoAttributes, seed |-> 0]

\* sep.join(parts)
RECURSIVE Join(_, _)
Join(parts, sep) ==
    IF Len(parts) = 0 THEN <<>>
    ELSE IF Len(parts) = 1 THEN parts[1]
    ELSE parts[1] \o <<sep>> \o Join(Tail(parts), sep)

RECURSIVE Concat(_)
Concat(parts) == IF parts = <<>> THEN <<>> ELSE parts[1] \o Concat(Tail(parts))

\* hand-made input strings of validate_membership_key: a first segment with a
\* tier's prefix or none, 3 to 5 segments before the checksum, any separator,
\* a right or a wrong checksum
CraftSegA == { <<65, 82, 75, 52, 69, 52>>,      \* "ARK4E4"
               <<79, 82, 67, 52, 69, 52>>,      \* "ORC4E4"
               <<71, 79, 68, 52, 69, 52>>,      \* "GOD4E4"
               <<88, 89, 90, 52, 69, 52>> }     \* "XYZ4E4"
CraftSeparators == {45, 58, 8734}
CraftSegB == { <<>>, <<65, 49>>, <<66, 49>>, <<67, 49>>,    \* "", "A1", "B1", "C1"
               <<101, 49>>, <<55>> }                        \* "e1", "7"
CraftSegC == { <<49, 56, 51, 48, 70>>,                      \* "1830F"
               <<49, 56, 68, 48, 49>> }                     \* "18D01"
CraftSegDP == { <<>>, <<88>>, <<65, 66, 49, 50>> }          \* "", "X", "AB12"
CraftBodies ==
    UNION { { <<a, b, c>>, <<a, b, c, d>>, <<a, b, c, d, <<90>>>> } :
            <<a, b, c, d>> \in CraftSegA \X CraftSegB \X CraftSegC \X CraftSegDP }
CraftedKeys ==
    { Join(Append(body, IF good THEN calculate_checksum(Concat(body)) ELSE <<48, 48>>), sep) :
        <<body, sep, good>> \in CraftBodies \X CraftSeparators \X BOOLEAN }
    \cup { <<103, 97, 114, 98, 97, 103, 101, 45, 110, 111, 116, 45, 97,
             45, 107, 101, 121>> }              \* "garbage-not-a-key"

\* the characters a tampered key gets: "-", "e", "0"
TamperChars == {45, 101, 48}

\* positions in a key of format_key that belong to segments A to D+Personal:
\* before the last separator, and not the separators after the 6 characters
\* of segment A, the 5 of segment B and the 5 of segment C
SegmentPositions(k, checksum) ==
    (1..(Len(k) - Len(checksum) - 1)) \ {7, 13, 19}

\* the 1-based position, in the concatenated segments, of position pos of a key
ConcatPosition(pos) ==
    IF pos < 7 THEN pos ELSE IF pos < 13 THEN pos - 1
    ELSE IF pos < 19 THEN pos - 2 ELSE pos - 3

NoChecksum == [input |-> <<>>, output |-> <<>>]

Threads == {1, 2}
\* the two calls of the concurrent runs
ThreadArgs == { [NoArgs EXCEPT !.seed = 0],
                [NoArgs EXCEPT !.user_id = UserBob, !.seed = 1] }

(***************************************************************************)
(* Sequential runs: one key is generated or handed in, possibly changed in *)
(* one character, then decoded or described.                               *)
(***************************************************************************)
ConcIdle ==
    /\ pc = [t \in Threads |-> "idle"]
    /\ idx = [t \in Threads |-> 0]
    /\ pattern = [t \in Threads |-> <<>>]
    /\ callArgs = [t \in Threads |-> NoArgs]
    /\ ret = [t \in Threads |-> <<>>]
    /\ running = 1
    /\ switches = 0

Init ==
    /\ rng = 0
    /\ \/ args \in ArgSet /\ key = <<>> /\ src = "none"
       \/ args = NoArgs /\ key \in CraftedKeys /\ src = "crafted"
    /\ orig = <<>>
    /\ tamperPos = 0
    /\ cksum = NoChecksum
    /\ result = NoResult
    /\ qr = NoQr
    /\ op = "init"
    /\ ConcIdle

\* generate_membership_key(user_id, tier_name, registration_date, user_attributes)
Generate ==
    /\ op = "init" /\ src = "none"
    /\ KnownTier(args.tier_name)
    /\ LET drawn == generate_unique_pattern(args.seed)
           tier == TierOf(Upper(args.tier_name))
           base == BaseKey(args.user_id, tier, args.registration_date,
                           args.user_attributes, drawn[1])
       IN  /\ key' = generate_membership_key(args.user_id, args.tier_name,
                         args.registration_date, args.user_attributes, args.seed)
           /\ rng' = drawn[2]
           /\ cksum' = [input |-> base, output |-> calculate_checksum(base)]
    /\ src' = "generated"
    /\ op' = "generate"
    /\ UNCHANGED <<args, orig, tamperPos, result, qr>>
    /\ UNCHANGED concVars

\* generate_membership_key with a tier name that is not in the table: KeyError
GenerateUnknownTier ==
    /\ op = "init" /\ src = "none"
    /\ ~KnownTier(args.tier_name)
    /\ op' = "keyerror"
    /\ UNCHANGED <<rng, args, key, src, orig, tamperPos, cksum, result, qr>>
    /\ UNCHANGED concVars

\* one character of the segments of a generated key is replaced by another
Tamper ==
    /\ op = "generate"
    /\ \E pos \in SegmentPositions(key, cksum.output), ch \in TamperChars :
        /\ ch # key[pos]
        /\ key' = [key EXCEPT ![pos] = ch]
        /\ tamperPos' = pos
    /\ orig' = key
    /\ src' = "tampered"
    /\ op' = "tamper"
    /\ UNCHANGED <<rng, args, cksum, result, qr>>
    /\ UNCHANGED concVars

HasKey == op \in {"generate", "tamper"} \/ (op = "init" /\ src = "crafted")

\* validate_membership_key(key)
Validate ==
    /\ HasKey
    /\ result' = validate_membership_key(key)
    /\ cksum' = IF ReachesChecksum(key)
                THEN LET segments == Split(key,
                            USER_TIERS[Min(MatchingTiers(key))].separator)
                     IN  [input |-> Reconstructed(segments),
                          output |-> calculate_checksum(Reconstructed(segments))]
                ELSE cksum
    /\ op' = "validate"
    /\ UNCHANGED <<rng, args, key, src, orig, tamperPos, qr>>
    /\ UNCHANGED concVars

\* generate_premium_qr_code(key)
Describe ==
    /\ HasKey
    /\ qr' = generate_premium_qr_code(key)
    /\ op' = "describe"
    /\ UNCHANGED <<rng, args, key, src, orig, tamperPos, cksum, result>>
    /\ UNCHANGED concVars

Next == Generate \/ GenerateUnknownTier \/ Tamper \/ Validate \/ Describe

Spec == Init /\ [][Next]_vars

(***************************************************************************)
(* Concurrent runs: two threads call generate_membership_key. A thread     *)
(* can lose the interpreter lock between any two calls into module random. *)
(***************************************************************************)
InitConc ==
    /\ rng = 0
    /\ args = NoArgs /\ key = <<>> /\ src = "none" /\ orig = <<>> /\ tamperPos = 0
    /\ cksum = NoChecksum /\ result = NoResult /\ qr = NoQr /\ op = "init"
    /\ pc = [t \in Threads |-> "seed"]
    /\ idx = [t \in Threads |-> 0]
    /\ pattern = [t \in Threads |-> <<>>]
    /\ callArgs \in [Threads -> ThreadArgs]
    /\ ret = [t \in Threads |-> <<>>]
    /\ running \in Threads
    /\ switches = 0

\* thread t runs next: it holds the lock, or the lock changes hands
Scheduled(t) ==
    IF running = t THEN UNCHANGED <<running, switches>>
    ELSE /\ switches < MaxSwitches
         /\ running' = t
         /\ switches' = switches + 1

\* random.seed(seed)
SeedStep(t) ==
    /\ pc[t] = "seed"
    /\ Scheduled(t)
    /\ rng' = SeedState(callArgs[t].seed)
    /\ pc' = [pc EXCEPT ![t] = "loop"]
    /\ UNCHANGED <<idx, pattern, callArgs, ret>>
    /\ UNCHANGED seqVars

\* one iteration of the for loop: pattern += random.choice(...)
DrawStep(t) ==
    /\ pc[t] = "loop" /\ idx[t] < 12
    /\ Scheduled(t)
    /\ pattern' = [pattern EXCEPT ![t] = Append(@, PatternChar(idx[t], rng))]
    /\ rng' = NextRandom(rng)
    /\ idx' = [idx EXCEPT ![t] = @ + 1]
    /\ UNCHANGED <<pc, callArgs, ret>>
    /\ UNCHANGED seqVars

\* the loop is over: the rest of generate_membership_key, up to its return
ReturnStep(t) ==
    /\ pc[t] = "loop" /\ idx[t] = 12
    /\ Scheduled(t)
    /\ ret' = [ret EXCEPT ![t] =
                AssembleKey(callArgs[t].user_id, TierOf(Upper(callArgs[t].tier_name)),
                            callArgs[t].registration_date,
                            callArgs[t].user_attributes, pattern[t])]
    /\ pc' = [pc EXCEPT ![t] = "done"]
    /\ UNCHANGED <<rng, idx, pattern, callArgs>>
    /\ UNCHANGED seqVars

NextConc == \E t \in Threads : SeedStep(t) \/ DrawStep(t) \/ ReturnStep(t)

SpecConc == InitConc /\ [][NextConc]_vars

(***************************************************************************)
(* Properties.                                                             *)
(***************************************************************************)
Accepted(r) == r.outcome = "returned" /\ r.valid

\* the tier a generated key was made for
ArgTier == TierOf(Upper(args.tier_name))

\* C1: decoding a generated key is accepted and gives back the upper-cased
\* tier name and the rank of the tier it was generated for.
RoundTripTierRank ==
    (op = "validate" /\ src = "generated") =>
        /\ Accepted(result)
        /\ result.tier_name = Upper(args.tier_name)
        /\ result.tier_level = ArgTier.id

\* C2: validate_membership_key always returns a result; it never ends in an
\* exception.
DecodeNeverThrows ==
    op = "validate" => result.outcome = "returned"

\* C3: every concurrent call of generate_membership_key returns the key the
\* same call returns when it runs alone.
EncodeDeterministic ==
    \A t \in Threads :
        pc[t] = "done" =>
            ret[t] = generate_membership_key(callArgs[t].user_id, callArgs[t].tier_name,
                         callArgs[t].registration_date, callArgs[t].user_attributes,
                         callArgs[t].seed)

\* C4: a generated key splits on its tier's separator into exactly 5 parts, and
\* the checksum of parts 1 to 4 concatenated is part 5.
KeyStructure ==
    (op = "generate") =>
        LET parts == Split(key, ArgTier.separator)
        IN  /\ Len(parts) = 5
            /\ calculate_checksum(parts[1] \o parts[2] \o parts[3] \o parts[4]) = parts[5]

\* C5 as claimed: an accepted generated key with any one character of its
\* segments replaced by any other character is rejected with "Invalid checksum".
ChecksumSensitivityAnyChar ==
    (op = "validate" /\ src = "tampered" /\ Accepted(validate_membership_key(orig))) =>
        result = Failure("Invalid checksum")

\* the replacement leaves the prefix alone, is not the tier's separator, and
\* changes the weighted sum modulo 36
Detectable ==
    /\ tamperPos > 3
    /\ key[tamperPos] # ArgTier.separator
    /\ ((key[tamperPos] - orig[tamperPos]) * ConcatPosition(tamperPos)) % 36 # 0

\* C5 as amended: an accepted generated key with one character after the prefix
\* replaced by a character that is not the separator, where the difference of
\* the two code points times the character's position in the concatenated
\* segments is not a multiple of 36, is rejected with "Invalid checksum".
ChecksumSensitivity ==
    (/\ op = "validate" /\ src = "tampered"
     /\ Accepted(validate_membership_key(orig))
     /\ Detectable) =>
        result = Failure("Invalid checksum")

ChecksumSensitivityWitness ==
    /\ op = "validate" /\ src = "tampered"
    /\ Accepted(validate_membership_key(orig))
    /\ Detectable
    /\ result.error = "Invalid checksum"

\* a digit in base 36: 0-9, A-Z
Base36Digit(d) == IF d < 10 THEN 48 + d ELSE 55 + d

\* C6: calculate_checksum returns 2 characters: the base-36 digit of s mod 36
\* and the base-36 digit of (s * 13) mod 36, s the position-weighted sum.
ChecksumFormat ==
    cksum # NoChecksum =>
        LET s == WeightedSum(cksum.input, Len(cksum.input))
        IN  cksum.output = <<Base36Digit(s % 36), Base36Digit((s * 13) % 36)>>

\* C7: when a generated key is accepted, the personal element returned is the
\* one generate_membership_key computed.
PersonalRoundTrip ==
    (op = "validate" /\ src = "generated" /\ Accepted(result)) =>
        result.personal_element =
            generate_personal_element(args.user_attributes, args.user_id)

IsUpperHex(s) == \A i \in 1..Len(s) : (s[i] >= 48 /\ s[i] <= 57) \/ (s[i] >= 65 /\ s[i] <= 70)

SameDate(d, e) == d.present /\ d.year = e.year /\ d.month = e.month /\ d.day = e.day

\* segment C of a generated key: format_key puts it after the 6 characters of
\* segment A, the 5 of segment B and two separators, up to the next separator
SegmentCOf(k) == Split(Slice(k, 13, Len(k)), ArgTier.separator)[1]

\* C8 as claimed: segment C of a generated key is 4 uppercase hex characters,
\* and when the key is accepted the decoded date is present and has the year,
\* month and day of the registration date.
DateRoundTripAnyYear ==
    (src = "generated" /\ op \in {"generate", "validate"}) =>
        /\ Len(SegmentCOf(key)) = 4
        /\ IsUpperHex(SegmentCOf(key))
        /\ (op = "validate" /\ Accepted(result)) =>
               SameDate(result.registration_date, args.registration_date)

\* C8 as amended: segment C of a generated key is 5 uppercase hex characters
\* (2 of the year mod 100, 1 of the month, 2 of the day), and when the key is
\* accepted and the year of the registration date is in 2000..2099 the decoded
\* date is present and has the year, month and day of the registration date.
DateRoundTrip ==
    (src = "generated" /\ op \in {"generate", "validate"}) =>
        /\ Len(SegmentCOf(key)) = 5
        /\ IsUpperHex(SegmentCOf(key))
        /\ (/\ op = "validate" /\ Accepted(result)
            /\ args.registration_date.year \in 2000..2099) =>
               SameDate(result.registration_date, args.registration_date)

DateRoundTripWitness ==
    /\ src = "generated" /\ op = "validate" /\ Accepted(result)
    /\ args.registration_date.year \in 2000..2099
    /\ SameDate(result.registration_date, args.registration_date)

\* the four gates of decoding, stated on the input string
Occurrences(s, c) == Cardinality({i \in 1..Len(s) : s[i] = c})
Gate1(k) == \E i \in 1..Len(USER_TIERS) :
                StartsWith(k, USER_TIERS[i].prefix) /\ Occurrences(k, USER_TIERS[i].separator) > 0
GateTier(k) == USER_TIERS[Min({i \in 1..Len(USER_TIERS) :
                StartsWith(k, USER_TIERS[i].prefix) /\ Occurrences(k, USER_TIERS[i].separator) > 0})]
Gate2(k) == Occurrences(k, GateTier(k).separator) = 4
GateParts(k) == Split(k, GateTier(k).separator)
Gate3(k) == calculate_checksum(GateParts(k)[1] \o GateParts(k)[2] \o GateParts(k)[3]
                               \o GateParts(k)[4]) = GateParts(k)[5]
Gate4(k) == /\ GateParts(k)[2] # <<>>
            /\ GateParts(k)[2][1] = ascii_uppercase[GateTier(k).id]
AllGates(k) == Gate1(k) /\ Gate2(k) /\ Gate3(k) /\ Gate4(k)
EarliestError(k) ==
    IF ~Gate1(k) THEN "Unknown key format"
    ELSE IF ~Gate2(k) THEN "Invalid key structure"
    ELSE IF ~Gate3(k) THEN "Invalid checksum"
    ELSE "Tier identifier mismatch"

\* C9: validate_membership_key returns valid = true with the decoded fields
\* exactly when the four gates pass, and else the error of the earliest
\* failing gate and no decoded fields.
GatePipeline ==
    op = "validate" =>
        /\ result.outcome = "returned"
        /\ result.valid <=> AllGates(key)
        /\ ~AllGates(key) => result = Failure(EarliestError(key))
        /\ AllGates(key) =>
            /\ result.tier_name = GateTier(key).key
            /\ result.tier_level = GateTier(key).id
            /\ result.user_id = <<117, 115, 101, 114, 95>>
                                  \o Slice(GateParts(key)[1], 3, Len(GateParts(key)[1]))
            /\ result.personal_element = TakeLast(GateParts(key)[4], 2)

\* the colour of the tier of each rank
RankColour == <<"#3A86FF", "#8338EC", "#FF006E", "#FFBE0B">>

\* C10: generate_premium_qr_code succeeds exactly when validate_membership_key
\* accepts the key; a failure carries the decode error; a success carries the
\* tier name and rank of the decode, complexity min(rank * 2, 10), the fixed
\* colour of the tier and the base URL followed by the key.
PresentationPassthrough ==
    op = "describe" =>
        LET v == validate_membership_key(key)
        IN  /\ (qr.outcome = "returned" /\ qr.success) <=> Accepted(v)
            /\ v.outcome = "returned" => qr.outcome = "returned"
            /\ (qr.outcome = "returned" /\ ~qr.success) =>
                   /\ qr.error = "Invalid membership key"
                   /\ qr.details = v.error
            /\ (qr.outcome = "returned" /\ qr.success) =>
                   /\ qr.tierName = v.tier_name
                   /\ qr.tierLevel = v.tier_level
                   /\ qr.patternComplexity =
                          (IF v.tier_level * 2 < 10 THEN v.tier_level * 2 ELSE 10)
                   /\ qr.mainColor = RankColour[v.tier_level]
                   /\ qr.mainColor # "#10b981"
                   /\ qr.validationURL = ValidationBase \o key
                   /\ v.tier_level = 3 =>
                          qr.patternComplexity = 6 /\ qr.mainColor = "#FF006E"

PresentationPassthroughWitness ==
    /\ op = "describe"
    /\ qr.outcome = "returned" /\ qr.success
    /\ qr.tierLevel = 3
    /\ qr.mainColor = "#FF006E"

====
